---- MODULE Spec2Model ----
(***************************************************************************)
(* Session orchestration of the interview client: the hooks                *)
(* useInterviewLogic, useTextToSpeech and useSpeechToText as one state     *)
(* machine.  Every awaited I/O boundary of the source is a separate        *)
(* action; the synchronous code between two awaits is one atomic step.     *)
(* A value a callback reads through its closure is the value of the render *)
(* in which the callback was created, so it is stored with the pending     *)
(* operation (hist, capRec, history).  Handlers and timers run only once   *)
(* the effects of the first commit have run (effectRan), and the handlers  *)
(* are no longer invoked once onEnd has handed the session back (ended).   *)
(***************************************************************************)
EXTENDS Integers, Sequences, FiniteSets, TLC

\* ------------------------------------------------------------------ bounds
MaxChat == 2
MaxRec == 1
MaxSpeak == 2
MaxFinish == 2
MaxVideoStart == 2
MaxVideoStop == 2
InitialSeconds == 1
MaxMinutes == 2
MaxOverlap == 2
MaxUpload == 2

\* -------------------------------------------------------- program constants
MinAudioBlobSize == 100
SecondsPerMinute == 60

BlobSizes == {0, MinAudioBlobSize - 1, MinAudioBlobSize}

VARIABLES
  cfg,            \* props: [mode, hasKey]
  messages,       \* useState<Message[]>
  isLoading,      \* useState<boolean>(true)
  errorState,     \* useState<string | null>
  showExitModal,  \* useState<boolean>(false)
  timeLeft,       \* useState<number | null>: <<>> is null, <<n>> is n
  timerOn,        \* the interval of the timer effect is scheduled
  effectRan,      \* useRef(false)
  intentionalExit,\* intentionalExitRef
  fullscreen,     \* document.fullscreenElement is set
  chats,          \* POST /api/chat requests in flight
  finishes,       \* finishEvaluation runs
  ended,          \* onEnd has been called
  tts,            \* useTextToSpeech: state, the audio element, the speak calls
  stt,            \* useSpeechToText: state, refs, the startRecording calls
  appended,       \* history: every Turn appended so far, in order
  stats,          \* history: counters of requests and notifications
  fsRequested,    \* a requestFullscreen() call is waiting for its answer
  pausedFrom,     \* history: the phase in which the exit modal was opened
  focused,        \* the window has focus and the document is visible
  video,          \* useVideoRecorder: state, refs, the stopAndUploadVideo calls
  analysis,       \* useTextToSpeech: the amplitude sampling loops
  dialog          \* ResumeUploadDialog and the page state that opens it

vars == <<cfg, messages, isLoading, errorState, showExitModal, timeLeft, timerOn,
          effectRan, intentionalExit, fullscreen, chats, finishes, ended, tts,
          stt, appended, stats, fsRequested, pausedFrom, focused, video,
          analysis, dialog>>

\* ------------------------------------------------------------------- texts
\* A text is [k |-> kind, n |-> serial]; the serial tells utterances apart.
\* Kinds: "plain" (speakable), "padded" (plain with surrounding whitespace),
\* "sentinel" (starts with "Error:", "An error occurred" or "Sorry,"),
\* "blank" (whitespace only), "empty" (""), "placeholder" ("(No response)").
ReplyKinds == {"plain", "padded", "sentinel", "blank", "missing"}
TranscriptKinds == {"plain", "blank", "empty"}

trim(text) ==
  CASE text.k = "padded" -> [text EXCEPT !.k = "plain"]
    [] text.k = "blank" -> [text EXCEPT !.k = "empty"]
    [] OTHER -> text

\* Mutant of NonSpeakable: the sentinel prefixes are not looked for.
NonSpeakableNoSentinel(text) == text.k \in {"empty", "blank", "missing"}

\* !text || text.trim() === "" || text.startsWith(<sentinel>)
NonSpeakable(text) == text.k \in {"empty", "blank", "missing", "sentinel"}

Turn(speaker, text) == [speaker |-> speaker, k |-> text.k, n |-> text.n]

\* --------------------------------------------------------- useTextToSpeech
\* tts.src / tts.owner / tts.playPending / tts.aborted hold the index of a
\* speak call in tts.calls, or 0.
TtsInit ==
  [isSpeaking |-> FALSE, ttsError |-> "none", src |-> 0, paused |-> TRUE,
   owner |-> 0, playPending |-> 0, aborted |-> 0, calls |-> <<>>]

\* A speak call that has returned keeps nothing.
DoneCall == [pc |-> "done", n |-> 0]

\* The continuation of a speak call whose play() promise was rejected with
\* AbortError: catch (nothing surfaced), then finally.
Drain(t) ==
  IF t.aborted = 0 THEN t
  ELSE [t EXCEPT !.isSpeaking = FALSE, !.owner = 0, !.aborted = 0,
                 !.calls[t.aborted] = DoneCall]

\* stop(): pause, src = "", handlers null, setIsSpeaking(false).
\* A pending play() promise is rejected with AbortError by the pause.
stopSync(t) ==
  [t EXCEPT !.paused = TRUE, !.src = 0, !.owner = 0, !.isSpeaking = FALSE,
            !.playPending = 0, !.aborted = t.playPending]

stop(t) == Drain(stopSync(t))

\* speak(text) up to its first await (the TTS request).
speak(t, text) ==
  LET s == stopSync(t) IN
  IF NonSpeakable(text) THEN Drain([s EXCEPT !.isSpeaking = FALSE])
  ELSE Drain([s EXCEPT !.isSpeaking = TRUE, !.ttsError = "none",
                       !.calls = Append(s.calls, [pc |-> "fetch", n |-> text.n])])

\* catch + finally of a speak call that failed with a real error.
FailCall(t, i, msg) ==
  [t EXCEPT !.ttsError = msg, !.isSpeaking = FALSE, !.owner = 0,
            !.calls[i] = DoneCall]

\* finally of a speak call whose playback promise resolved.
EndCall(t, i) ==
  [t EXCEPT !.isSpeaking = FALSE, !.owner = 0, !.calls[i] = DoneCall]

\* The TTS response of call i is usable: src, handlers, play().
speakPlay(t, i) ==
  Drain([t EXCEPT !.src = i, !.owner = i, !.paused = FALSE,
                  !.playPending = i, !.aborted = t.playPending,
                  !.calls[i].pc = "playing"])

\* useEffect on ttsError: a new non-null ttsError becomes the errorState.
ttsErrorEffect(old, new, err) ==
  IF new.ttsError # "none" /\ new.ttsError # old.ttsError THEN "tts" ELSE err

\* The sampling loops of startAnalysis.  loops counts the loops that have an
\* animation frame scheduled; refLive tells whether animationFrameRef holds
\* the id of a scheduled frame; running is whether the AudioContext exists
\* and is in state "running"; amplitude is 0 or 1 (any value above 0).
AnalysisInit == [loops |-> 0, refLive |-> FALSE, running |-> TRUE, amplitude |-> 0]

\* startAnalysis(), called by speak only when the context is running: the
\* first pass of loop() samples (level) and schedules the next frame.
startAnalysis(a, level) ==
  IF a.running
  THEN [a EXCEPT !.loops = @ + 1, !.refLive = TRUE, !.amplitude = level]
  ELSE a

\* stopAnalysis(): cancelAnimationFrame(animationFrameRef.current) cancels
\* the one frame the ref names, if it is still scheduled; setAmplitude(0).
stopAnalysis(a) ==
  [a EXCEPT !.loops = IF a.refLive THEN @ - 1 ELSE @, !.refLive = FALSE,
            !.amplitude = 0]

\* ---------------------------------------------------------- useSpeechToText
SttInit ==
  [isRecording |-> FALSE, isTranscribing |-> FALSE, recorderRef |-> 0,
   streamRef |-> 0, live |-> {}, recs |-> <<>>]

\* streamRef.current?.getTracks().forEach(stop); streamRef.current = null
releaseStream(s) == [s EXCEPT !.live = s.live \ {s.streamRef}, !.streamRef = 0]

\* stopRecording as created in a render where isRecording was capRec.
stopRecording(s, capRec) ==
  IF s.recorderRef # 0 /\ s.recs[s.recorderRef].pc = "recording"
  THEN [s EXCEPT !.recs[s.recorderRef].pc = "stopping"]
  ELSE LET s1 == IF capRec THEN [s EXCEPT !.isRecording = FALSE] ELSE s
       IN IF s1.streamRef # 0 THEN releaseStream(s1) ELSE s1

\* Mutant of TooSmall: the size floor is off by one.
TooSmallOffByOne(size) == size < MinAudioBlobSize - 1

\* audioBlob.size < 100
TooSmall(size) == size < MinAudioBlobSize

\* ---------------------------------------------------------- useVideoRecorder
\* video.recorder is the state of mediaRecorderRef.current: "none" (null),
\* "recording" or "inactive".  video.gum counts getUserMedia requests not yet
\* answered, video.starts the calls of startVideoRecording, video.orphans the
\* recorders that were still recording when the refs were overwritten.
VideoInit ==
  [recorder |-> "none", streamRef |-> FALSE, isRecordingVideo |-> FALSE,
   isVideoUploading |-> FALSE, gum |-> 0, starts |-> 0, orphans |-> 0,
   calls |-> <<>>]

\* ------------------------------------------------------ ResumeUploadDialog
\* The page (HomePageContent): dialog.open is showResumeDialog,
\* dialog.positionOpen is showPositionDialog,
\* dialog.resumeData whether resumeData is set (the name confirmation dialog
\* is open), dialog.requesting is isRequestingPermission, dialog.permission
\* the permissionError, dialog.interview whether the URL names a mode (the
\* page then renders the interview in place of the dialogs).
\* ResumeUploadDialog: file, isLoading and error are its state, kept for as
\* long as it is mounted; uploading tells whether the request of
\* handleSubmit is in flight, uploads counts the requests.
DialogInit ==
  [open |-> FALSE, positionOpen |-> FALSE, resumeData |-> FALSE,
   requesting |-> FALSE,
   permission |-> "none", interview |-> FALSE, file |-> "none",
   isLoading |-> FALSE, error |-> "", uploading |-> FALSE, uploads |-> 0]

\* ----------------------------------------------------------------- helpers
StatsInit ==
  [chatSent |-> 0, sttPosts |-> 0, speakCalls |-> 0, submits |-> 0, onEnds |-> 0]

Bump(s, f) == [s EXCEPT ![f] = @ + 1]

NextSerial == Len(appended) + 1

\* const minsLeft = timeLeft ? timeLeft / 60 : null; the quotient is kept
\* as the fraction num/den, null as <<>>.
minsLeft(time) ==
  IF time = <<>> \/ time[1] = 0 THEN <<>>
  ELSE <<[num |-> time[1], den |-> SecondsPerMinute]>>

\* sendToAI(history) up to its await: the request carries the history and
\* time_left_mins, computed from the timeLeft of the render the sendToAI
\* that is called belongs to (time).
ChatRequest(history, expected, time) ==
  [id |-> stats.chatSent + 1, history |-> history, expected |-> expected,
   mins |-> minsLeft(time)]

Init ==
  /\ cfg \in {[mode |-> "evaluation", hasKey |-> TRUE],
              [mode |-> "position", hasKey |-> FALSE]}
  /\ messages = <<>>
  /\ isLoading = TRUE
  /\ errorState = "none"
  /\ showExitModal = FALSE
  /\ timeLeft = IF cfg.mode = "evaluation" THEN <<InitialSeconds>> ELSE <<>>
  /\ timerOn = (cfg.mode = "evaluation")
  /\ effectRan = FALSE
  /\ intentionalExit = FALSE
  /\ fullscreen = TRUE
  /\ chats = {}
  /\ finishes = <<>>
  /\ ended = FALSE
  /\ tts = TtsInit
  /\ stt = SttInit
  /\ appended = <<>>
  /\ stats = StatsInit
  /\ fsRequested = FALSE
  /\ pausedFrom = "none"
  /\ focused = TRUE
  /\ video = VideoInit
  /\ analysis = AnalysisInit
  /\ dialog = DialogInit

\* ------------------------------------------------------- useInterviewLogic
\* The setup effect: register the listener, initAudioSystem, sendToAI([]).
Mount ==
  /\ effectRan = FALSE
  /\ stats.chatSent < MaxChat
  /\ effectRan' = TRUE
  /\ chats' = chats \cup {ChatRequest(<<>>, appended, timeLeft)}
  /\ stats' = Bump(stats, "chatSent")
  /\ UNCHANGED <<dialog, analysis, video, focused, fsRequested, pausedFrom,
                 cfg, messages, isLoading, errorState, showExitModal, timeLeft,
                 timerOn, intentionalExit, fullscreen, finishes, ended, tts, stt,
                 appended>>

\* sendToAI after its await: a 2xx response with a JSON body.
ChatReply(c, kind) ==
  /\ c \in chats
  /\ LET raw == [k |-> kind, n |-> NextSerial]
         said == IF kind = "missing" THEN [k |-> "placeholder", n |-> NextSerial]
                 ELSE trim(raw)
         spoken == kind # "missing"
         t1 == IF spoken THEN speak(tts, said) ELSE tts
     IN /\ Len(t1.calls) <= MaxSpeak
        /\ messages' = Append(messages, Turn("alex", said))
        /\ appended' = Append(appended, Turn("alex", said))
        /\ tts' = t1
        /\ errorState' = ttsErrorEffect(tts, t1, errorState)
        /\ stats' = IF spoken THEN Bump(stats, "speakCalls") ELSE stats
  /\ chats' = chats \ {c}
  /\ isLoading' = FALSE
  /\ UNCHANGED <<dialog, analysis, video, focused, fsRequested, pausedFrom,
                 cfg, showExitModal, timeLeft, timerOn, effectRan,
                 intentionalExit, fullscreen, finishes, ended, stt>>

\* Mutant of ChatFail: the failure is also shown as an agent turn.
ChatFailAppends(c) ==
  /\ c \in chats
  /\ chats' = chats \ {c}
  /\ errorState' = "chat"
  /\ isLoading' = FALSE
  /\ messages' = Append(messages, Turn("alex", [k |-> "sentinel", n |-> NextSerial]))
  /\ UNCHANGED <<dialog, analysis, video, focused, fsRequested, pausedFrom,
                 cfg, showExitModal, timeLeft, timerOn, effectRan,
                 intentionalExit, fullscreen, finishes, ended, tts, stt, appended,
                 stats>>

\* sendToAI after its await: network error, non-2xx, or an unparsable body.
ChatFail(c) ==
  /\ c \in chats
  /\ chats' = chats \ {c}
  /\ errorState' = "chat"
  /\ isLoading' = FALSE
  /\ UNCHANGED <<dialog, analysis, video, focused, fsRequested, pausedFrom,
                 cfg, messages, showExitModal, timeLeft, timerOn, effectRan,
                 intentionalExit, fullscreen, finishes, ended, tts, stt, appended,
                 stats>>

\* --------------------------------------------- useTextToSpeech, after awaits
\* The TTS request of call i failed: non-2xx, a blob under 100 bytes or not
\* audio/*, or a network error.  catch, then finally.
TtsFail(i) ==
  /\ i \in DOMAIN tts.calls
  /\ tts.calls[i].pc = "fetch"
  /\ tts' = FailCall(tts, i, "audio")
  /\ errorState' = ttsErrorEffect(tts, tts', errorState)
  /\ UNCHANGED <<dialog, analysis, video, focused, fsRequested, pausedFrom,
                 cfg, messages, isLoading, showExitModal, timeLeft, timerOn,
                 effectRan, intentionalExit, fullscreen, chats, finishes, ended,
                 stt, appended, stats>>

\* The TTS request of call i returned audio: it is played on the shared element.
TtsOk(i) ==
  /\ i \in DOMAIN tts.calls
  /\ tts.calls[i].pc = "fetch"
  /\ tts' = speakPlay(tts, i)
  /\ errorState' = ttsErrorEffect(tts, tts', errorState)
  /\ UNCHANGED <<dialog, analysis, video, focused, fsRequested, pausedFrom,
                 cfg, messages, isLoading, showExitModal, timeLeft, timerOn,
                 effectRan, intentionalExit, fullscreen, chats, finishes, ended,
                 stt, appended, stats>>

\* Playback has begun: the play() promise resolves.
PlayStarted ==
  /\ tts.playPending # 0
  /\ tts' = [tts EXCEPT !.playPending = 0]
  /\ UNCHANGED <<dialog, analysis, video, focused, fsRequested, pausedFrom,
                 cfg, messages, isLoading, errorState, showExitModal, timeLeft,
                 timerOn, effectRan, intentionalExit, fullscreen, chats, finishes,
                 ended, stt, appended, stats>>

\* The element fires "ended": onended of the call that owns the handlers.
AudioEnded ==
  /\ tts.src # 0 /\ ~tts.paused /\ tts.playPending = 0
  /\ LET t1 == [tts EXCEPT !.paused = TRUE]
     IN tts' = IF tts.owner # 0 THEN EndCall(t1, tts.owner) ELSE t1
  /\ UNCHANGED <<dialog, analysis, video, focused, fsRequested, pausedFrom,
                 cfg, messages, isLoading, errorState, showExitModal, timeLeft,
                 timerOn, effectRan, intentionalExit, fullscreen, chats, finishes,
                 ended, stt, appended, stats>>

\* The element fails to load or decode: "error" fires and a pending play()
\* promise is rejected; both reject the playback promise of their call.
AudioError ==
  /\ tts.src # 0 /\ ~tts.paused
  /\ LET t1 == [tts EXCEPT !.paused = TRUE, !.playPending = 0]
         t2 == IF tts.owner # 0 THEN FailCall(t1, tts.owner, "playback") ELSE t1
         t3 == IF tts.playPending # 0 /\ tts.playPending # tts.owner
               THEN FailCall(t2, tts.playPending, "playback") ELSE t2
     IN /\ tts' = t3
        /\ errorState' = ttsErrorEffect(tts, t3, errorState)
  /\ UNCHANGED <<dialog, analysis, video, focused, fsRequested, pausedFrom,
                 cfg, messages, isLoading, showExitModal, timeLeft, timerOn,
                 effectRan, intentionalExit, fullscreen, chats, finishes, ended,
                 stt, appended, stats>>

\* ------------------------------------------------------- recording and STT
\* onError(error) of useInterviewLogic.
onErrorState(error, err) == IF error # "none" THEN error ELSE err

\* Mutant of HandleStartRecording: the speech is not stopped.
HandleStartRecordingNoStop ==
  /\ effectRan /\ ~ended
  /\ Len(stt.recs) < MaxRec
  /\ stt' = [stt EXCEPT !.isRecording = TRUE,
                        !.recs = Append(stt.recs, [pc |-> "gum", hist |-> messages,
                                                   time |-> timeLeft,
                                                   blob |-> 0, heard |-> "none"])]
  /\ isLoading' = FALSE
  /\ UNCHANGED <<dialog, analysis, video, focused, fsRequested, pausedFrom,
                 cfg, messages, errorState, showExitModal, timeLeft, timerOn,
                 effectRan, intentionalExit, fullscreen, chats, finishes, ended,
                 tts, appended, stats>>

\* handleStartRecording: stopSpeaking(); startRecording() up to getUserMedia.
\* onTranscript of this render closes over the current messages and, through
\* its sendToAI, over the current timeLeft.  Neither
\* function looks at a recording already started: limit only bounds the
\* number of recordings of a behaviour.
StartRecordingWithin(limit) ==
  /\ effectRan /\ ~ended
  /\ Len(stt.recs) < limit
  /\ tts' = stop(tts)
  /\ stt' = [stt EXCEPT !.isRecording = TRUE,
                        !.recs = Append(stt.recs, [pc |-> "gum", hist |-> messages,
                                                   time |-> timeLeft,
                                                   blob |-> 0, heard |-> "none"])]
  /\ errorState' = onErrorState("none", errorState)
  /\ isLoading' = FALSE
  /\ UNCHANGED <<dialog, analysis, video, focused, fsRequested, pausedFrom,
                 cfg, messages, showExitModal, timeLeft, timerOn, effectRan,
                 intentionalExit, fullscreen, chats, finishes, ended, appended,
                 stats>>

HandleStartRecording == StartRecordingWithin(MaxRec)

\* getUserMedia resolved: the recorder is created and started.
GumOk(k) ==
  /\ k \in DOMAIN stt.recs
  /\ stt.recs[k].pc = "gum"
  /\ stt' = [stt EXCEPT !.streamRef = k, !.live = stt.live \cup {k},
                        !.recorderRef = k, !.recs[k].pc = "recording"]
  /\ UNCHANGED <<dialog, analysis, video, focused, fsRequested, pausedFrom,
                 cfg, messages, isLoading, errorState, showExitModal, timeLeft,
                 timerOn, effectRan, intentionalExit, fullscreen, chats, finishes,
                 ended, tts, appended, stats>>

\* The DOMException names the catch block of startRecording tells apart.
GumErrorNames == {"NotAllowedError", "PermissionDeniedError", "NotFoundError",
                  "DevicesNotFoundError", "NotReadableError"}

\* specificError of the catch block for a DOMException named name.
specificError(name) ==
  CASE name \in {"NotAllowedError", "PermissionDeniedError"} ->
         "Microphone access denied."
    [] name \in {"NotFoundError", "DevicesNotFoundError"} -> "No microphone found."
    [] name = "NotReadableError" -> "Microphone is in use or hardware error."
    [] OTHER -> "Microphone Error"

GumErrors == {specificError(name) : name \in GumErrorNames}

\* Mutant of GumFail: isRecording is left as it was.
GumFailKeepsFlag(k, msg) ==
  /\ k \in DOMAIN stt.recs
  /\ stt.recs[k].pc = "gum"
  /\ stt' = releaseStream([stt EXCEPT !.recs[k].pc = "done", !.recs[k].hist = <<>>,
                                      !.recs[k].time = <<>>])
  /\ errorState' = onErrorState(msg, errorState)
  /\ isLoading' = FALSE
  /\ UNCHANGED <<dialog, analysis, video, focused, fsRequested, pausedFrom,
                 cfg, messages, showExitModal, timeLeft, timerOn, effectRan,
                 intentionalExit, fullscreen, chats, finishes, ended, tts,
                 appended, stats>>

\* getUserMedia rejected: the catch block of startRecording.
GumFail(k, msg) ==
  /\ k \in DOMAIN stt.recs
  /\ stt.recs[k].pc = "gum"
  /\ stt' = releaseStream([stt EXCEPT !.isRecording = FALSE, !.recs[k].pc = "done",
                                      !.recs[k].hist = <<>>,
                                      !.recs[k].time = <<>>])
  /\ errorState' = onErrorState(msg, errorState)
  /\ isLoading' = FALSE
  /\ UNCHANGED <<dialog, analysis, video, focused, fsRequested, pausedFrom,
                 cfg, messages, showExitModal, timeLeft, timerOn, effectRan,
                 intentionalExit, fullscreen, chats, finishes, ended, tts,
                 appended, stats>>

\* getUserMedia resolved but no recorder can be made (window.MediaRecorder
\* is missing): streamRef is set, the throw is caught, the stream released.
RecorderInitError == "MediaRecorder API not supported."

RecorderInitFail(k) ==
  /\ k \in DOMAIN stt.recs
  /\ stt.recs[k].pc = "gum"
  /\ stt' = releaseStream([stt EXCEPT !.streamRef = k, !.live = stt.live \cup {k},
                                      !.isRecording = FALSE, !.recs[k].pc = "done",
                                      !.recs[k].hist = <<>>,
                                      !.recs[k].time = <<>>])
  /\ errorState' = onErrorState(RecorderInitError, errorState)
  /\ isLoading' = FALSE
  /\ UNCHANGED <<dialog, analysis, video, focused, fsRequested, pausedFrom,
                 cfg, messages, showExitModal, timeLeft, timerOn, effectRan,
                 intentionalExit, fullscreen, chats, finishes, ended, tts,
                 appended, stats>>

\* handleStopRecording: stopRecording of the current render.
HandleStopRecording ==
  /\ effectRan /\ ~ended
  /\ stt' = stopRecording(stt, stt.isRecording)
  /\ UNCHANGED <<dialog, analysis, video, focused, fsRequested, pausedFrom,
                 cfg, messages, isLoading, errorState, showExitModal, timeLeft,
                 timerOn, effectRan, intentionalExit, fullscreen, chats, finishes,
                 ended, tts, appended, stats>>

\* recorder.onstop up to its await; size is the size of the recorded blob.
RecorderOnStop(k, size) ==
  /\ k \in DOMAIN stt.recs
  /\ stt.recs[k].pc = "stopping"
  /\ LET s1 == [releaseStream(stt) EXCEPT !.isRecording = FALSE,
                                           !.isTranscribing = TRUE,
                                           !.recs[k].blob = size]
     IN IF TooSmall(size)
        THEN /\ stt' = [s1 EXCEPT !.isTranscribing = FALSE, !.recs[k].pc = "done",
                                   !.recs[k].hist = <<>>, !.recs[k].time = <<>>]
             /\ errorState' = onErrorState("No speech detected.", errorState)
             /\ isLoading' = FALSE
             /\ UNCHANGED stats
        ELSE /\ stt' = [s1 EXCEPT !.recs[k].pc = "stt"]
             /\ stats' = Bump(stats, "sttPosts")
             /\ UNCHANGED <<errorState, isLoading>>
  /\ UNCHANGED <<dialog, analysis, video, focused, fsRequested, pausedFrom,
                 cfg, messages, showExitModal, timeLeft, timerOn, effectRan,
                 intentionalExit, fullscreen, chats, finishes, ended, tts,
                 appended>>

\* Mutant of SttReply: the transcript is not checked for being empty.
SttReplyUnchecked(k, kind) ==
  /\ k \in DOMAIN stt.recs
  /\ stt.recs[k].pc = "stt"
  /\ stats.chatSent < MaxChat
  /\ stt' = [stt EXCEPT !.isTranscribing = FALSE, !.recs[k].pc = "done",
                        !.recs[k].hist = <<>>,
                        !.recs[k].time = <<>>, !.recs[k].heard = kind]
  /\ LET text == trim([k |-> kind, n |-> NextSerial])
         updatedHistory == Append(stt.recs[k].hist, Turn("user", text))
         expected == Append(appended, Turn("user", text))
     IN /\ isLoading' = TRUE
        /\ errorState' = "none"
        /\ messages' = updatedHistory
        /\ appended' = expected
        /\ chats' = chats \cup {ChatRequest(updatedHistory, expected, stt.recs[k].time)}
        /\ stats' = Bump(stats, "chatSent")
  /\ UNCHANGED <<dialog, analysis, video, focused, fsRequested, pausedFrom,
                 cfg, showExitModal, timeLeft, timerOn, effectRan,
                 intentionalExit, fullscreen, finishes, ended, tts>>

\* POST /api/stt returned a body (heard is the kind of its transcript):
\* onTranscript of the render in which the recording was started, or
\* onError for an empty transcript; then finally.
SttReply(k, kind) ==
  /\ k \in DOMAIN stt.recs
  /\ stt.recs[k].pc = "stt"
  /\ stt' = [stt EXCEPT !.isTranscribing = FALSE, !.recs[k].pc = "done",
                        !.recs[k].hist = <<>>,
                        !.recs[k].time = <<>>, !.recs[k].heard = kind]
  /\ LET text == trim([k |-> kind, n |-> NextSerial])
     IN IF NonSpeakable(text)
        THEN \* data.transcript.trim() === "": onError("Could not understand audio.")
             /\ errorState' = onErrorState("Could not understand audio.", errorState)
             /\ isLoading' = FALSE
             /\ UNCHANGED <<messages, chats, appended, stats>>
        ELSE LET updatedHistory == Append(stt.recs[k].hist, Turn("user", text))
                 expected == Append(appended, Turn("user", text))
             IN /\ stats.chatSent < MaxChat
                /\ isLoading' = TRUE
                /\ errorState' = "none"
                /\ messages' = updatedHistory
                /\ appended' = expected
                /\ chats' = chats \cup {ChatRequest(updatedHistory, expected, stt.recs[k].time)}
                /\ stats' = Bump(stats, "chatSent")
  /\ UNCHANGED <<dialog, analysis, video, focused, fsRequested, pausedFrom,
                 cfg, showExitModal, timeLeft, timerOn, effectRan,
                 intentionalExit, fullscreen, finishes, ended, tts>>

\* Mutant of SttFail: the finally block is missing.
SttFailNoFinally(k) ==
  /\ k \in DOMAIN stt.recs
  /\ stt.recs[k].pc = "stt"
  /\ stt' = [stt EXCEPT !.recs[k].pc = "done", !.recs[k].hist = <<>>,
                        !.recs[k].time = <<>>,
                        !.recs[k].heard = "failed"]
  /\ errorState' = onErrorState("stt", errorState)
  /\ isLoading' = FALSE
  /\ UNCHANGED <<dialog, analysis, video, focused, fsRequested, pausedFrom,
                 cfg, messages, showExitModal, timeLeft, timerOn, effectRan,
                 intentionalExit, fullscreen, chats, finishes, ended, tts,
                 appended, stats>>

\* POST /api/stt failed: the catch block of onstop, then finally.
SttFail(k) ==
  /\ k \in DOMAIN stt.recs
  /\ stt.recs[k].pc = "stt"
  /\ stt' = [stt EXCEPT !.isTranscribing = FALSE, !.recs[k].pc = "done",
                        !.recs[k].hist = <<>>,
                        !.recs[k].time = <<>>, !.recs[k].heard = "failed"]
  /\ errorState' = onErrorState("stt", errorState)
  /\ isLoading' = FALSE
  /\ UNCHANGED <<dialog, analysis, video, focused, fsRequested, pausedFrom,
                 cfg, messages, showExitModal, timeLeft, timerOn, effectRan,
                 intentionalExit, fullscreen, chats, finishes, ended, tts,
                 appended, stats>>

\* -------------------------------------------------- pause, exit and finish
\* The phase the flags stand for, in the precedence of getStatusText.
Phase ==
  CASE stt.isRecording -> "recording"
    [] stt.isTranscribing -> "transcribing"
    [] isLoading -> "thinking"
    [] tts.isSpeaking -> "speaking"
    [] OTHER -> "idle"

\* The phase to return to, kept from the step that opens the exit modal.
PausedFromNext == IF showExitModal THEN pausedFrom ELSE Phase

\* Mutant of HandleFullscreenChange: the intentional-exit flag is not cleared.
HandleFullscreenChangeKeepsFlag ==
  /\ effectRan
  /\ fullscreen \/ fsRequested
  /\ fullscreen' = ~fullscreen
  /\ fsRequested' = FALSE
  /\ IF ~fullscreen' /\ ~intentionalExit
     THEN /\ tts' = stop(tts)
          /\ stt' = stopRecording(stt, FALSE)
          /\ showExitModal' = TRUE
          /\ pausedFrom' = PausedFromNext
     ELSE UNCHANGED <<tts, stt, showExitModal, pausedFrom>>
  /\ UNCHANGED <<dialog, analysis, video, focused, intentionalExit,
                 cfg, messages, isLoading, errorState, timeLeft, timerOn,
                 effectRan, chats, finishes, ended, appended, stats>>

\* handleFullscreenChange, registered once by the setup effect: its
\* stopRecording is the one of the first render (isRecording false).
\* The document enters fullscreen only when a requestFullscreen() call is
\* granted; it can leave fullscreen at any time.
HandleFullscreenChange ==
  /\ effectRan
  /\ fullscreen \/ fsRequested
  /\ fullscreen' = ~fullscreen
  /\ fsRequested' = FALSE
  /\ IF ~fullscreen' /\ ~intentionalExit
     THEN /\ tts' = stop(tts)
          /\ stt' = stopRecording(stt, FALSE)
          /\ showExitModal' = TRUE
          /\ pausedFrom' = PausedFromNext
     ELSE UNCHANGED <<tts, stt, showExitModal, pausedFrom>>
  /\ intentionalExit' = FALSE
  /\ UNCHANGED <<dialog, analysis, video, focused,
                 cfg, messages, isLoading, errorState, timeLeft, timerOn,
                 effectRan, chats, finishes, ended, appended, stats>>

\* handleRequestExit: stopSpeaking(); stopRecording(); setShowExitModal(true).
HandleRequestExit ==
  /\ effectRan /\ ~ended
  /\ tts' = stop(tts)
  /\ stt' = stopRecording(stt, stt.isRecording)
  /\ showExitModal' = TRUE
  /\ pausedFrom' = PausedFromNext
  /\ UNCHANGED <<dialog, analysis, video, focused, fsRequested,
                 cfg, messages, isLoading, errorState, timeLeft, timerOn,
                 effectRan, intentionalExit, fullscreen, chats, finishes, ended,
                 appended, stats>>

\* The requestFullscreen() promise is rejected: .catch(() => {}).
FullscreenRequestRejected ==
  /\ fsRequested
  /\ fsRequested' = FALSE
  /\ UNCHANGED <<dialog, analysis, video, focused, pausedFrom,
                 cfg, messages, isLoading, errorState, showExitModal, timeLeft,
                 timerOn, effectRan, intentionalExit, fullscreen, chats, finishes,
                 ended, tts, stt, appended, stats>>

\* Mutant of HandleCancelExit: fullscreen is not requested again.
HandleCancelExitNoRequest ==
  /\ effectRan /\ ~ended
  /\ showExitModal
  /\ showExitModal' = FALSE
  /\ pausedFrom' = "none"
  /\ UNCHANGED <<dialog, analysis, video, focused, fsRequested,
                 cfg, messages, isLoading, errorState, timeLeft, timerOn,
                 effectRan, intentionalExit, fullscreen, chats, finishes, ended,
                 tts, stt, appended, stats>>

\* handleCancelExit: close the modal, requestFullscreen().  The request is
\* answered by a later fullscreenchange event or rejected; on a document
\* that is already in fullscreen it changes nothing.
HandleCancelExit ==
  /\ effectRan /\ ~ended
  /\ showExitModal
  /\ showExitModal' = FALSE
  /\ fsRequested' = ~fullscreen
  /\ pausedFrom' = "none"
  /\ UNCHANGED <<dialog, analysis, video, focused,
                 cfg, messages, isLoading, errorState, timeLeft, timerOn,
                 effectRan, intentionalExit, fullscreen, chats, finishes, ended,
                 tts, stt, appended, stats>>

\* finishEvaluation after the submission (if any): the flag, the cleanups, onEnd.
FinishTail(run) ==
  /\ intentionalExit' = TRUE
  /\ tts' = stop(tts)
  /\ stt' = stopRecording(stt, run.capRec)
  /\ ended' = TRUE

\* Every turn of the transcript is in the submitted history.
Contains(history, transcript) ==
  \A i \in DOMAIN transcript : \E j \in DOMAIN history : history[j] = transcript[i]

\* A finished run keeps only whether it submitted, whether the history it
\* submitted held every turn the transcript had when it called onEnd, and
\* (saved) whether its submission request was fulfilled.
DoneRun(run, submitted, transcript) ==
  [pc |-> "done", history |-> <<>>, capRec |-> FALSE, submitted |-> submitted,
   complete |-> Contains(run.history, transcript), saved |-> FALSE]

\* Mutant of Submits: the mode is not looked at.
SubmitsKeyOnly(c) == c.hasKey

\* finishEvaluation sends the submission for these props.
Submits(c) == c.mode = "evaluation" /\ c.hasKey

\* handleConfirmExit: close the modal, finishEvaluation() up to its await.
\* The history is the messages of the render the handler belongs to.
HandleConfirmExit ==
  /\ effectRan /\ ~ended
  /\ showExitModal
  /\ Len(finishes) < MaxFinish
  /\ showExitModal' = FALSE
  /\ pausedFrom' = "none"
  /\ LET run == [pc |-> "submit", history |-> messages, capRec |-> stt.isRecording,
                 submitted |-> TRUE, complete |-> TRUE, saved |-> FALSE]
     IN IF Submits(cfg)
        THEN /\ finishes' = Append(finishes, run)
             /\ stats' = Bump(stats, "submits")
             /\ UNCHANGED <<intentionalExit, tts, stt, ended>>
        ELSE /\ finishes' = Append(finishes, DoneRun(run, FALSE, messages))
             /\ stats' = Bump(stats, "onEnds")
             /\ FinishTail(run)
  /\ UNCHANGED <<dialog, analysis, video, focused, fsRequested,
                 cfg, messages, isLoading, errorState, timeLeft, timerOn,
                 effectRan, fullscreen, chats, appended>>

\* Mutant of SubmitSettles: a rejected submission ends the run at the await.
SubmitSettlesFailureThrows(f, ok) ==
  /\ f \in DOMAIN finishes
  /\ finishes[f].pc = "submit"
  /\ finishes' = [finishes EXCEPT
                    ![f] = [DoneRun(finishes[f], TRUE, messages) EXCEPT !.saved = ok]]
  /\ IF ok
     THEN /\ stats' = Bump(stats, "onEnds")
          /\ FinishTail(finishes[f])
     ELSE UNCHANGED <<stats, intentionalExit, tts, stt, ended>>
  /\ UNCHANGED <<dialog, analysis, video, focused, fsRequested, pausedFrom,
                 cfg, messages, isLoading, errorState, showExitModal, timeLeft,
                 timerOn, effectRan, fullscreen, chats, appended>>

\* POST /api/submit_interview settled: fulfilled (ok; the response status is
\* not looked at) or rejected (the catch only logs).  Then the rest of
\* finishEvaluation.
SubmitSettles(f, ok) ==
  /\ f \in DOMAIN finishes
  /\ finishes[f].pc = "submit"
  /\ finishes' = [finishes EXCEPT
                    ![f] = [DoneRun(finishes[f], TRUE, messages) EXCEPT !.saved = ok]]
  /\ stats' = Bump(stats, "onEnds")
  /\ FinishTail(finishes[f])
  /\ UNCHANGED <<dialog, analysis, video, focused, fsRequested, pausedFrom,
                 cfg, messages, isLoading, errorState, showExitModal, timeLeft,
                 timerOn, effectRan, fullscreen, chats, appended>>

\* ------------------------------------------------------------------- timer
\* Mutant of Tick: reaching zero starts finishEvaluation.
TickAutoFinish ==
  /\ effectRan /\ timerOn
  /\ cfg.mode = "evaluation" /\ timeLeft # <<>>
  /\ Len(finishes) < MaxFinish
  /\ IF timeLeft[1] <= 0
     THEN /\ timeLeft' = <<0>> /\ timerOn' = FALSE
          /\ UNCHANGED <<finishes, stats>>
     ELSE /\ timeLeft' = <<timeLeft[1] - 1>> /\ timerOn' = TRUE
          /\ IF timeLeft[1] = 1
             THEN /\ finishes' = Append(finishes,
                         [pc |-> "submit", history |-> messages,
                          capRec |-> stt.isRecording, submitted |-> TRUE,
                          complete |-> TRUE, saved |-> FALSE])
                  /\ stats' = Bump(stats, "submits")
             ELSE UNCHANGED <<finishes, stats>>
  /\ UNCHANGED <<dialog, analysis, video, focused, fsRequested, pausedFrom,
                 cfg, messages, isLoading, errorState, showExitModal, effectRan,
                 intentionalExit, fullscreen, chats, ended, tts, stt, appended>>

\* Mutant of Tick: the countdown waits while the exit modal is shown.
TickPausable ==
  /\ effectRan /\ timerOn /\ ~showExitModal
  /\ cfg.mode = "evaluation" /\ timeLeft # <<>>
  /\ IF timeLeft[1] <= 0
     THEN timeLeft' = <<0>> /\ timerOn' = FALSE
     ELSE timeLeft' = <<timeLeft[1] - 1>> /\ timerOn' = TRUE
  /\ UNCHANGED <<dialog, analysis, video, focused, fsRequested, pausedFrom,
                 cfg, messages, isLoading, errorState, showExitModal, effectRan,
                 intentionalExit, fullscreen, chats, finishes, ended, tts, stt,
                 appended, stats>>

\* One firing of the interval of the timer effect.
Tick ==
  /\ effectRan /\ timerOn
  /\ cfg.mode = "evaluation" /\ timeLeft # <<>>
  /\ IF timeLeft[1] <= 0
     THEN timeLeft' = <<0>> /\ timerOn' = FALSE
     ELSE timeLeft' = <<timeLeft[1] - 1>> /\ timerOn' = TRUE
  /\ UNCHANGED <<dialog, analysis, video, focused, fsRequested, pausedFrom,
                 cfg, messages, isLoading, errorState, showExitModal, effectRan,
                 intentionalExit, fullscreen, chats, finishes, ended, tts, stt,
                 appended, stats>>

getStatusText ==
  CASE showExitModal -> "Paused. Please make a selection."
    [] timeLeft = <<0>> -> "Time is up. Wrap up your answer."
    [] stt.isRecording -> "Listening... Speak now."
    [] stt.isTranscribing -> "Processing your response..."
    [] isLoading -> "Alex is thinking..."
    [] tts.isSpeaking -> "Alex is speaking..."
    [] errorState # "none" -> "Error"
    [] OTHER -> "It's your turn. Press the mic to speak."

Next ==
  \/ Mount
  \/ \E c \in chats : \E kind \in ReplyKinds : ChatReply(c, kind)
  \/ \E c \in chats : ChatFail(c)
  \/ \E i \in 1..MaxSpeak : TtsFail(i)
  \/ \E i \in 1..MaxSpeak : TtsOk(i)
  \/ PlayStarted
  \/ AudioEnded
  \/ AudioError
  \/ HandleStartRecording
  \/ \E k \in 1..MaxRec : GumOk(k)
  \/ \E k \in 1..MaxRec : \E msg \in GumErrors : GumFail(k, msg)
  \/ HandleStopRecording
  \/ \E k \in 1..MaxRec : \E size \in BlobSizes : RecorderOnStop(k, size)
  \/ \E k \in 1..MaxRec : \E kind \in TranscriptKinds : SttReply(k, kind)
  \/ \E k \in 1..MaxRec : SttFail(k)
  \/ HandleFullscreenChange
  \/ HandleRequestExit
  \/ HandleCancelExit
  \/ FullscreenRequestRejected
  \/ HandleConfirmExit
  \/ \E f \in 1..MaxFinish : \E ok \in BOOLEAN : SubmitSettles(f, ok)
  \/ Tick

Spec == Init /\ [][Next]_vars

\* ------------------------------------------------- window focus, visibility
\* The window loses focus or the document becomes hidden.  The setup effect
\* registers a listener for "fullscreenchange" only: no handler runs.
WindowBlur ==
  /\ focused
  /\ focused' = FALSE
  /\ UNCHANGED <<dialog, analysis, video, fsRequested, pausedFrom,
                 cfg, messages, isLoading, errorState, showExitModal, timeLeft,
                 timerOn, effectRan, intentionalExit, fullscreen, chats, finishes,
                 ended, tts, stt, appended, stats>>

\* The window is focused and the document visible again: no handler runs.
WindowFocus ==
  /\ ~focused
  /\ focused' = TRUE
  /\ UNCHANGED <<dialog, analysis, video, fsRequested, pausedFrom,
                 cfg, messages, isLoading, errorState, showExitModal, timeLeft,
                 timerOn, effectRan, intentionalExit, fullscreen, chats, finishes,
                 ended, tts, stt, appended, stats>>

\* A practice session (no countdown, no submission) with the focus events.
InitFocus == Init /\ cfg.mode = "position"

NextFocus ==
  \/ WindowBlur
  \/ WindowFocus
  \/ Mount
  \/ \E c \in chats : \E kind \in ReplyKinds : ChatReply(c, kind)
  \/ \E c \in chats : ChatFail(c)
  \/ \E i \in 1..MaxSpeak : TtsFail(i)
  \/ \E i \in 1..MaxSpeak : TtsOk(i)
  \/ PlayStarted
  \/ AudioEnded
  \/ AudioError
  \/ HandleStartRecording
  \/ \E k \in 1..MaxRec : GumOk(k)
  \/ \E k \in 1..MaxRec : \E msg \in GumErrors : GumFail(k, msg)
  \/ HandleStopRecording
  \/ \E k \in 1..MaxRec : \E size \in BlobSizes : RecorderOnStop(k, size)
  \/ \E k \in 1..MaxRec : \E kind \in TranscriptKinds : SttReply(k, kind)
  \/ \E k \in 1..MaxRec : SttFail(k)
  \/ HandleFullscreenChange
  \/ HandleRequestExit
  \/ HandleCancelExit
  \/ FullscreenRequestRejected
  \/ HandleConfirmExit

SpecFocus == InitFocus /\ [][NextFocus]_vars

\* ------------------------------------------------- overlapping recordings
\* A practice session in which up to MaxOverlap recordings are started: a
\* start while getUserMedia of an earlier start is pending (the mic button
\* pressed, released and pressed again before the permission is answered)
\* or while an earlier recorder records.
HandleStartRecordingAgain == StartRecordingWithin(MaxOverlap)

NextOverlap ==
  \/ Mount
  \/ HandleStartRecordingAgain
  \/ \E k \in 1..MaxOverlap : GumOk(k)
  \/ \E k \in 1..MaxOverlap : \E msg \in GumErrors : GumFail(k, msg)
  \/ \E k \in 1..MaxOverlap : RecorderInitFail(k)
  \/ HandleStopRecording
  \/ \E k \in 1..MaxOverlap : \E size \in BlobSizes : RecorderOnStop(k, size)
  \/ \E k \in 1..MaxOverlap : \E kind \in TranscriptKinds : SttReply(k, kind)
  \/ \E k \in 1..MaxOverlap : SttFail(k)
  \/ HandleRequestExit
  \/ HandleCancelExit

SpecOverlap == InitFocus /\ [][NextOverlap]_vars

\* ------------------------------------------------------ the turns alone
\* A practice session that is neither paused nor left: the greeting, the
\* recordings (up to MaxOverlap, overlapping or one after the other), their
\* transcription, the chat requests and the speech.
NextTurns ==
  \/ Mount
  \/ \E c \in chats : \E kind \in ReplyKinds : ChatReply(c, kind)
  \/ \E c \in chats : ChatFail(c)
  \/ \E i \in 1..MaxSpeak : TtsFail(i)
  \/ \E i \in 1..MaxSpeak : TtsOk(i)
  \/ PlayStarted
  \/ AudioEnded
  \/ AudioError
  \/ HandleStartRecordingAgain
  \/ \E k \in 1..MaxOverlap : GumOk(k)
  \/ \E k \in 1..MaxOverlap : \E msg \in GumErrors : GumFail(k, msg)
  \/ HandleStopRecording
  \/ \E k \in 1..MaxOverlap : \E size \in BlobSizes : RecorderOnStop(k, size)
  \/ \E k \in 1..MaxOverlap : \E kind \in TranscriptKinds : SttReply(k, kind)
  \/ \E k \in 1..MaxOverlap : SttFail(k)

SpecTurns == InitFocus /\ [][NextTurns]_vars

\* Every request in flight is answered, every event of the audio element
\* and of a stopped recorder is delivered, and the user stops a recording
\* that is running.
FairTurns ==
  /\ WF_vars(Mount)
  /\ WF_vars(\E c \in chats : ChatFail(c) \/ \E kind \in ReplyKinds : ChatReply(c, kind))
  /\ WF_vars(\E i \in 1..MaxSpeak : TtsFail(i) \/ TtsOk(i))
  /\ WF_vars(PlayStarted)
  /\ WF_vars(AudioEnded \/ AudioError)
  /\ WF_vars(\E k \in 1..MaxOverlap : GumOk(k) \/ \E msg \in GumErrors : GumFail(k, msg))
  /\ WF_vars(HandleStopRecording)
  /\ WF_vars(\E k \in 1..MaxOverlap : \E size \in BlobSizes : RecorderOnStop(k, size))
  /\ WF_vars(\E k \in 1..MaxOverlap :
               SttFail(k) \/ \E kind \in TranscriptKinds : SttReply(k, kind))

SpecTurnsFair == SpecTurns /\ FairTurns

\* ------------------------------------------------- the effect's lifecycle
\* The cleanup of the setup effect: the listener removed, cleanupTts,
\* cleanupStt (both of the first render), effectRan.current = false.
SetupCleanup ==
  /\ effectRan
  /\ effectRan' = FALSE
  /\ tts' = stop(tts)
  /\ stt' = stopRecording(stt, FALSE)
  /\ UNCHANGED <<dialog, analysis, video, focused, fsRequested, pausedFrom,
                 cfg, messages, isLoading, errorState, showExitModal, timeLeft,
                 timerOn, intentionalExit, fullscreen, chats, finishes, ended,
                 appended, stats>>

\* One hook instance whose setup effect is run, cleaned up and run again,
\* as a strict-mode or re-attached tree does, with the greeting and its
\* speech.
NextLifecycle ==
  \/ Mount
  \/ SetupCleanup
  \/ \E c \in chats : \E kind \in ReplyKinds : ChatReply(c, kind)
  \/ \E c \in chats : ChatFail(c)
  \/ \E i \in 1..MaxSpeak : TtsFail(i)
  \/ \E i \in 1..MaxSpeak : TtsOk(i)
  \/ PlayStarted
  \/ AudioEnded
  \/ AudioError

SpecLifecycle == InitFocus /\ [][NextLifecycle]_vars

\* ----------------------------------------- useTextToSpeech with its analysis
\* The hook alone: its caller calls speak and stop, the TTS requests are
\* answered, the audio element fires its events, the browser runs the
\* animation frames.
callerVars ==
  <<cfg, messages, isLoading, errorState, showExitModal, timeLeft, timerOn,
    effectRan, intentionalExit, fullscreen, chats, finishes, ended, stt,
    appended, stats, fsRequested, pausedFrom, focused, video, dialog>>

SampleLevels == {0, 1}

\* The levels a sample can have: above 0 only while the element plays.
Audible(t) == IF t.src # 0 /\ ~t.paused THEN SampleLevels ELSE {0}

InitAnalysis ==
  /\ Init
  /\ cfg.mode = "position"

\* speak(text): stop() (with its stopAnalysis), then the request.
SpeakCalled(kind) ==
  /\ Len(tts.calls) < MaxSpeak
  /\ tts' = speak(tts, [k |-> kind, n |-> Len(tts.calls) + 1])
  /\ analysis' = stopAnalysis(analysis)
  /\ UNCHANGED callerVars

\* stop(): pause, clear the element, stopAnalysis().
StopCalled ==
  /\ tts' = stop(tts)
  /\ analysis' = stopAnalysis(analysis)
  /\ UNCHANGED callerVars

\* The TTS response of call i is usable: src, handlers, play(), and
\* startAnalysis() when the context is running.
TtsOkAnalysed(i, level) ==
  /\ i \in DOMAIN tts.calls
  /\ tts.calls[i].pc = "fetch"
  /\ tts' = speakPlay(tts, i)
  /\ level \in Audible(tts')
  /\ analysis' = startAnalysis(analysis, level)
  /\ UNCHANGED callerVars

\* The TTS request of call i failed: catch and finally touch no loop.
TtsFailAnalysed(i) ==
  /\ i \in DOMAIN tts.calls
  /\ tts.calls[i].pc = "fetch"
  /\ tts' = FailCall(tts, i, "audio")
  /\ UNCHANGED <<dialog, analysis, callerVars>>

PlayStartedAnalysed ==
  /\ tts.playPending # 0
  /\ tts' = [tts EXCEPT !.playPending = 0]
  /\ UNCHANGED <<dialog, analysis, callerVars>>

\* "ended": onended of the call that owns the handlers calls stopAnalysis().
AudioEndedAnalysed ==
  /\ tts.src # 0 /\ ~tts.paused /\ tts.playPending = 0
  /\ LET t1 == [tts EXCEPT !.paused = TRUE]
     IN tts' = IF tts.owner # 0 THEN EndCall(t1, tts.owner) ELSE t1
  /\ analysis' = IF tts.owner # 0 THEN stopAnalysis(analysis) ELSE analysis
  /\ UNCHANGED callerVars

\* "error": onerror of the call that owns the handlers calls stopAnalysis();
\* the rejection of a pending play() promise alone does not.
AudioErrorAnalysed ==
  /\ tts.src # 0 /\ ~tts.paused
  /\ LET t1 == [tts EXCEPT !.paused = TRUE, !.playPending = 0]
         t2 == IF tts.owner # 0 THEN FailCall(t1, tts.owner, "playback") ELSE t1
         t3 == IF tts.playPending # 0 /\ tts.playPending # tts.owner
               THEN FailCall(t2, tts.playPending, "playback") ELSE t2
     IN tts' = t3
  /\ analysis' = IF tts.owner # 0 THEN stopAnalysis(analysis) ELSE analysis
  /\ UNCHANGED callerVars

\* An animation frame: every scheduled loop() runs; with the context
\* running it samples and schedules its next frame, writing the id to
\* animationFrameRef; otherwise it sets the amplitude to 0 and ends.
AnimationFrame(level) ==
  /\ analysis.loops > 0
  /\ level \in Audible(tts)
  /\ analysis' = IF analysis.running
                 THEN [analysis EXCEPT !.refLive = TRUE, !.amplitude = level]
                 ELSE [analysis EXCEPT !.loops = 0, !.refLive = FALSE,
                                       !.amplitude = 0]
  /\ UNCHANGED <<tts, callerVars>>

\* The AudioContext is suspended by the browser, or resumed.
ContextStateChange ==
  /\ analysis' = [analysis EXCEPT !.running = ~@]
  /\ UNCHANGED <<tts, callerVars>>

NextAnalysis ==
  \/ \E kind \in {"plain", "sentinel"} : SpeakCalled(kind)
  \/ StopCalled
  \/ \E i \in 1..MaxSpeak : \E level \in SampleLevels : TtsOkAnalysed(i, level)
  \/ \E i \in 1..MaxSpeak : TtsFailAnalysed(i)
  \/ PlayStartedAnalysed
  \/ AudioEndedAnalysed
  \/ AudioErrorAnalysed
  \/ \E level \in SampleLevels : AnimationFrame(level)
  \/ ContextStateChange

SpecAnalysis == InitAnalysis /\ [][NextAnalysis]_vars

\* ------------------------------------------------------ leaving the session
\* A session in any mode, with or without an evaluationKey, without a
\* countdown: the greeting, one recording, the exit modal and
\* finishEvaluation.
Modes == {"resume", "position", "evaluation"}

InitFinish ==
  /\ cfg \in {[mode |-> mode, hasKey |-> key] : mode \in Modes, key \in BOOLEAN}
  /\ timeLeft = <<>>
  /\ timerOn = FALSE
  /\ messages = <<>>
  /\ isLoading = TRUE
  /\ errorState = "none"
  /\ showExitModal = FALSE
  /\ effectRan = FALSE
  /\ intentionalExit = FALSE
  /\ fullscreen = TRUE
  /\ chats = {}
  /\ finishes = <<>>
  /\ ended = FALSE
  /\ tts = TtsInit
  /\ stt = SttInit
  /\ appended = <<>>
  /\ stats = StatsInit
  /\ fsRequested = FALSE
  /\ pausedFrom = "none"
  /\ focused = TRUE
  /\ video = VideoInit
  /\ analysis = AnalysisInit
  /\ dialog = DialogInit

NextFinish ==
  \/ Mount
  \/ \E c \in chats : \E kind \in ReplyKinds : ChatReply(c, kind)
  \/ \E c \in chats : ChatFail(c)
  \/ \E i \in 1..MaxSpeak : TtsFail(i)
  \/ \E i \in 1..MaxSpeak : TtsOk(i)
  \/ HandleStartRecording
  \/ \E k \in 1..MaxRec : GumOk(k)
  \/ HandleFullscreenChange
  \/ HandleRequestExit
  \/ HandleCancelExit
  \/ FullscreenRequestRejected
  \/ HandleConfirmExit
  \/ \E f \in 1..MaxFinish : \E ok \in BOOLEAN : SubmitSettles(f, ok)

SpecFinish == InitFinish /\ [][NextFinish]_vars

\* ------------------------------------------------- the resume upload dialog
hookVars ==
  <<cfg, messages, isLoading, errorState, showExitModal, timeLeft, timerOn,
    effectRan, intentionalExit, fullscreen, chats, finishes, ended, tts, stt,
    appended, stats, fsRequested, pausedFrom, focused, video, analysis>>

FileTypes == {"pdf", "other"}

PermissionErrors == {"denied", "hardware"}

\* The "Resume Interview" button of the page, disabled while
\* isRequestingPermission: setShowResumeDialog(true).
OpenResumeDialog ==
  /\ ~dialog.interview /\ ~dialog.open /\ ~dialog.resumeData
  /\ ~dialog.positionOpen /\ ~dialog.requesting
  /\ dialog' = [dialog EXCEPT !.open = TRUE]
  /\ UNCHANGED hookVars

\* The "Position Interview" button of the page, disabled while
\* isRequestingPermission: setShowPositionDialog(true).
OpenPositionDialog ==
  /\ ~dialog.interview /\ ~dialog.open /\ ~dialog.resumeData
  /\ ~dialog.positionOpen /\ ~dialog.requesting
  /\ dialog' = [dialog EXCEPT !.positionOpen = TRUE]
  /\ UNCHANGED hookVars

\* onOpenChange(false) of the position dialog, ignored while
\* isRequestingPermission.
ClosePositionDialog ==
  /\ dialog.positionOpen
  /\ dialog' = [dialog EXCEPT !.positionOpen = dialog.requesting]
  /\ UNCHANGED hookVars

\* handlePositionSubmit up to its await (getUserMedia); the form is
\* disabled while isRequestingPermission.
HandlePositionSubmit ==
  /\ dialog.positionOpen /\ ~dialog.interview /\ ~dialog.requesting
  /\ dialog' = [dialog EXCEPT !.requesting = TRUE, !.permission = "none"]
  /\ UNCHANGED hookVars

\* handleFileChange: the input is disabled while isLoading.
HandleFileChange(type) ==
  /\ dialog.open /\ ~dialog.isLoading
  /\ dialog' = [dialog EXCEPT !.file = type, !.error = ""]
  /\ UNCHANGED hookVars

\* The remove button next to the file name: setFile(null).
RemoveFile ==
  /\ dialog.open /\ ~dialog.isLoading /\ dialog.file # "none"
  /\ dialog' = [dialog EXCEPT !.file = "none"]
  /\ UNCHANGED hookVars

\* handleSubmit up to its await; the button is disabled while isLoading or
\* without a file.
HandleSubmit ==
  /\ dialog.open /\ ~dialog.isLoading /\ dialog.file # "none"
  /\ IF dialog.file # "pdf"
     THEN dialog' = [dialog EXCEPT !.error = "Please select a PDF file."]
     ELSE /\ dialog.uploads < MaxUpload
          /\ dialog' = [dialog EXCEPT !.isLoading = TRUE, !.error = "",
                                      !.uploading = TRUE, !.uploads = @ + 1]
  /\ UNCHANGED hookVars

\* The upload answered 2xx with a JSON body: onSubmit, which is
\* handleResumeSubmit of the page (setResumeData, setShowResumeDialog(false)).
UploadOk ==
  /\ dialog.uploading
  /\ dialog' = [dialog EXCEPT !.uploading = FALSE, !.resumeData = TRUE,
                              !.open = FALSE]
  /\ UNCHANGED hookVars

\* The upload failed (network error, non-2xx, unparsable body): the catch.
UploadFail ==
  /\ dialog.uploading
  /\ dialog' = [dialog EXCEPT !.uploading = FALSE, !.isLoading = FALSE,
                              !.error = "An error occurred during upload. Please try again."]
  /\ UNCHANGED hookVars

\* handleOpenChange(false): the user dismisses the dialog; the page's
\* onOpenChange ignores the change while isRequestingPermission.
HandleOpenChange ==
  /\ dialog.open
  /\ dialog' = IF dialog.isLoading THEN dialog
               ELSE [dialog EXCEPT !.file = "none", !.error = "",
                                   !.open = dialog.requesting]
  /\ UNCHANGED hookVars

\* handleCancelNameConfirmation of the page.
HandleCancelNameConfirmation ==
  /\ dialog.resumeData /\ ~dialog.interview
  /\ dialog' = [dialog EXCEPT !.resumeData = FALSE, !.requesting = FALSE,
                              !.permission = "none"]
  /\ UNCHANGED hookVars

\* handleNameConfirmation up to its await (getUserMedia); the form of the
\* name dialog is disabled while isRequestingPermission.
HandleNameConfirmation ==
  /\ dialog.resumeData /\ ~dialog.interview /\ ~dialog.requesting
  /\ dialog' = [dialog EXCEPT !.requesting = TRUE, !.permission = "none"]
  /\ UNCHANGED hookVars

\* getUserMedia resolved: the dialog that asked is closed
\* (setResumeData(null) or setShowPositionDialog(false)), router.push to
\* the interview; the page renders the interview and the dialogs are
\* unmounted.
PermissionGranted ==
  /\ dialog.requesting /\ ~dialog.interview
  /\ dialog' = [dialog EXCEPT !.resumeData = FALSE, !.positionOpen = FALSE,
                              !.interview = TRUE]
  /\ UNCHANGED hookVars

\* getUserMedia rejected: the catch of handleNameConfirmation and of
\* handlePositionSubmit.
PermissionRefused(err) ==
  /\ dialog.requesting /\ ~dialog.interview
  /\ dialog' = [dialog EXCEPT !.requesting = FALSE, !.permission = err]
  /\ UNCHANGED hookVars

\* The URL loses its mode (back to the home page): the effect on
\* searchParams resets the page state, and ResumeUploadDialog is mounted
\* anew with its initial state.
BackHome ==
  /\ dialog.interview
  /\ dialog' = [dialog EXCEPT !.interview = FALSE, !.requesting = FALSE,
                              !.permission = "none", !.resumeData = FALSE,
                              !.file = "none", !.isLoading = FALSE, !.error = ""]
  /\ UNCHANGED hookVars

NextDialog ==
  \/ OpenResumeDialog
  \/ OpenPositionDialog
  \/ ClosePositionDialog
  \/ HandlePositionSubmit
  \/ \E type \in FileTypes : HandleFileChange(type)
  \/ RemoveFile
  \/ HandleSubmit
  \/ UploadOk
  \/ UploadFail
  \/ HandleOpenChange
  \/ HandleCancelNameConfirmation
  \/ HandleNameConfirmation
  \/ PermissionGranted
  \/ \E err \in PermissionErrors : PermissionRefused(err)
  \/ BackHome

SpecDialog == Init /\ [][NextDialog]_vars

\* ------------------------------------------------------------ the countdown
\* An evaluation session of durationMinutes minutes: the countdown with the
\* handlers that open and close the exit modal.
InitClock ==
  /\ cfg \in {[mode |-> "evaluation", hasKey |-> TRUE, durationMinutes |-> d] :
                d \in 1..MaxMinutes}
  /\ timeLeft = <<cfg.durationMinutes * SecondsPerMinute>>
  /\ timerOn = TRUE
  /\ messages = <<>>
  /\ isLoading = TRUE
  /\ errorState = "none"
  /\ showExitModal = FALSE
  /\ effectRan = FALSE
  /\ intentionalExit = FALSE
  /\ fullscreen = TRUE
  /\ chats = {}
  /\ finishes = <<>>
  /\ ended = FALSE
  /\ tts = TtsInit
  /\ stt = SttInit
  /\ appended = <<>>
  /\ stats = StatsInit
  /\ fsRequested = FALSE
  /\ pausedFrom = "none"
  /\ focused = TRUE
  /\ video = VideoInit
  /\ analysis = AnalysisInit
  /\ dialog = DialogInit

NextClock ==
  \/ Mount
  \/ Tick
  \/ HandleFullscreenChange
  \/ HandleRequestExit
  \/ HandleCancelExit
  \/ FullscreenRequestRejected

SpecClock == InitClock /\ [][NextClock]_vars

\* ---------------------------------------------------------- useVideoRecorder
sessionVars ==
  <<cfg, messages, isLoading, errorState, showExitModal, timeLeft, timerOn,
    effectRan, intentionalExit, fullscreen, chats, finishes, ended, tts, stt,
    appended, stats, fsRequested, pausedFrom, focused, analysis, dialog>>

\* startVideoRecording up to its await (getUserMedia).
StartVideoRecording ==
  /\ video.starts < MaxVideoStart
  /\ video' = [video EXCEPT !.starts = @ + 1, !.gum = @ + 1]
  /\ UNCHANGED sessionVars

\* getUserMedia resolved: the refs are overwritten, the recorder is started.
VideoGumOk ==
  /\ video.gum > 0
  /\ video' = [video EXCEPT !.gum = @ - 1, !.streamRef = TRUE,
                            !.orphans = IF video.recorder = "recording"
                                        THEN @ + 1 ELSE @,
                            !.recorder = "recording",
                            !.isRecordingVideo = TRUE]
  /\ UNCHANGED sessionVars

\* getUserMedia rejected: the catch only logs.
VideoGumFail ==
  /\ video.gum > 0
  /\ video' = [video EXCEPT !.gum = @ - 1]
  /\ UNCHANGED sessionVars

\* An upload attempt of an earlier call has been started and has not settled.
UploadPending(v) == \E i \in DOMAIN v.calls : v.calls[i].pc \in {"stopping", "upload"}

\* stopAndUploadVideo(accessKey) up to the promise it returns.  Without an
\* active recorder it returns at the guard: the promise of the async
\* function is then already resolved (early; pending tells whether an
\* upload attempt was outstanding at that moment).
StopAndUploadVideo ==
  /\ Len(video.calls) < MaxVideoStop
  /\ IF video.recorder \in {"none", "inactive"}
     THEN video' = [video EXCEPT
                      !.calls = Append(@, [pc |-> "resolved", early |-> TRUE,
                                           pending |-> UploadPending(video)])]
     ELSE video' = [video EXCEPT
                      !.isVideoUploading = TRUE, !.recorder = "inactive",
                      !.calls = Append(@, [pc |-> "stopping", early |-> FALSE,
                                           pending |-> FALSE])]
  /\ UNCHANGED sessionVars

\* recorder.onstop of call i, up to the upload request.
VideoOnStop(i) ==
  /\ i \in DOMAIN video.calls
  /\ video.calls[i].pc = "stopping"
  /\ video' = [video EXCEPT !.streamRef = FALSE, !.isRecordingVideo = FALSE,
                            !.calls[i].pc = "upload"]
  /\ UNCHANGED sessionVars

\* fetch of /api/upload_video fulfilled (whatever the status): resolve().
VideoUploadOk(i) ==
  /\ i \in DOMAIN video.calls
  /\ video.calls[i].pc = "upload"
  /\ video' = [video EXCEPT !.isVideoUploading = FALSE, !.calls[i].pc = "resolved"]
  /\ UNCHANGED sessionVars

\* fetch of /api/upload_video rejected: reject(e), then finally.
VideoUploadFail(i) ==
  /\ i \in DOMAIN video.calls
  /\ video.calls[i].pc = "upload"
  /\ video' = [video EXCEPT !.isVideoUploading = FALSE, !.calls[i].pc = "rejected"]
  /\ UNCHANGED sessionVars

NextVideo ==
  \/ StartVideoRecording
  \/ VideoGumOk
  \/ VideoGumFail
  \/ StopAndUploadVideo
  \/ \E i \in 1..MaxVideoStop : VideoOnStop(i)
  \/ \E i \in 1..MaxVideoStop : VideoUploadOk(i)
  \/ \E i \in 1..MaxVideoStop : VideoUploadFail(i)

SpecVideo == Init /\ [][NextVideo]_vars

\* ------------------------------------------------------------------ claims
Latest == Len(tts.calls)

TimeUpText == "Time is up. Wrap up your answer."

\* C1: the history of every chat request is exactly the list of the turns
\* appended to the transcript before the request, in order.
C1_HistoryIsTranscript == \A c \in chats : c.history = c.expected

\* C2: however often Finishing is triggered, there is one submission attempt
\* and one onEnd notification.
C2_FinishOnce == stats.submits <= 1 /\ stats.onEnds <= 1

\* C3: the history a finishEvaluation run submitted holds every turn that
\* was in the transcript when the run called onEnd.
C3_SubmittedComplete ==
  \A f \in DOMAIN finishes :
    (finishes[f].pc = "done" /\ finishes[f].submitted) => finishes[f].complete

C5_BargeIn ==
  [][ (Len(stt'.recs) > Len(stt.recs) /\ (tts.isSpeaking \/ ~tts.paused)) =>
        /\ ~tts'.isSpeaking
        /\ tts'.paused /\ tts'.src = 0 /\ tts'.owner = 0
        /\ stt'.recs[Len(stt'.recs)].pc = "gum" ]_vars

C5_Witness ==
  /\ Len(stt.recs) > 0 /\ stt.recs[Len(stt.recs)].pc = "gum"
  /\ \E i \in DOMAIN tts.calls : tts.calls[i].pc = "playing"
  /\ ~tts.isSpeaking /\ tts.paused /\ ~showExitModal /\ ~ended

\* C6: B is the latest speak call.  While B's audio plays with B's handlers
\* installed, a step that makes no new speak call either stops or ends the
\* playback, or leaves B's audio playing with B's handlers still installed
\* and isSpeaking not reset; it never puts another call's audio on the element.
C6_LatestSpeakOwnsAudio ==
  [][ (/\ Len(tts'.calls) = Latest /\ Latest > 0
       /\ tts.src = Latest /\ ~tts.paused /\ tts.owner = Latest) =>
        /\ tts'.src \in {0, Latest}
        /\ (tts'.src = Latest /\ ~tts'.paused) =>
             (tts'.owner = Latest /\ (tts.isSpeaking => tts'.isSpeaking)) ]_vars

\* C7: at most one chat request is in flight.
C7_OneChatInFlight == Cardinality(chats) <= 1

\* C8: the transcript is exactly the turns appended by successful replies and
\* successful transcriptions: one turn each, none removed or overwritten.
C8_OneTurnPerSuccess == messages = appended

\* C9: a step in which a chat request settles without a reply stores the
\* error, appends no turn, invokes no speak and leaves isLoading false.
C9_ChatFailure ==
  [][ (Cardinality(chats') < Cardinality(chats) /\ appended' = appended) =>
        /\ errorState' = "chat"
        /\ messages' = messages
        /\ ~isLoading'
        /\ stats'.speakCalls = stats.speakCalls
        /\ tts' = tts ]_vars

C9_Witness ==
  /\ errorState = "chat" /\ ~isLoading /\ chats = {} /\ messages = <<>>
  /\ stats.chatSent = 1 /\ stats.speakCalls = 0

\* C10: the onstop step of a recording whose blob is under the size floor
\* sends no STT request, reports "No speech detected.", ends with
\* isTranscribing false, and changes neither the transcript nor the chat
\* requests.
C10_SmallBlob ==
  [][ \A k \in DOMAIN stt.recs :
        (/\ stt.recs[k].pc = "stopping" /\ stt'.recs[k].pc # "stopping"
         /\ stt'.recs[k].blob < MinAudioBlobSize) =>
          /\ stt'.recs[k].pc = "done"
          /\ stats'.sttPosts = stats.sttPosts
          /\ errorState' = "No speech detected."
          /\ ~stt'.isTranscribing
          /\ messages' = messages
          /\ chats' = chats /\ stats'.chatSent = stats.chatSent ]_vars

C10_Witness ==
  \E k \in DOMAIN stt.recs :
    /\ stt.recs[k].pc = "done" /\ stt.recs[k].blob = MinAudioBlobSize - 1
    /\ stats.sttPosts = 0 /\ errorState = "No speech detected."
    /\ ~stt.isTranscribing

\* C11: the step in which the STT service answers with an empty or
\* whitespace-only transcript appends no turn, issues no chat request and
\* ends with isTranscribing and isLoading false.
C11_EmptyTranscriptDiscarded ==
  [][ \A k \in DOMAIN stt.recs :
        (/\ stt.recs[k].pc = "stt" /\ stt'.recs[k].pc = "done"
         /\ stt'.recs[k].heard \in {"blank", "empty"}) =>
          /\ messages' = messages
          /\ appended' = appended
          /\ chats' = chats /\ stats'.chatSent = stats.chatSent
          /\ ~stt'.isTranscribing /\ ~isLoading' ]_vars

C11_Witness ==
  \E k \in DOMAIN stt.recs :
    /\ stt.recs[k].pc = "done" /\ stt.recs[k].heard = "blank"
    /\ Len(messages) = 1 /\ messages[1].speaker = "alex"
    /\ chats = {} /\ ~stt.isTranscribing /\ ~isLoading
    /\ errorState = "Could not understand audio."

\* Speech is stopped: isSpeaking false, the element paused and without source.
SpeechStopped(t) == ~t.isSpeaking /\ t.paused /\ t.src = 0

\* Recording is stopped: no recorder is recording, and isRecording is false
\* or about to be cleared by the onstop of a recorder that was stopped.
RecordingStopped(s) ==
  /\ \A k \in DOMAIN s.recs : s.recs[k].pc # "recording"
  /\ s.isRecording => \E k \in DOMAIN s.recs : s.recs[k].pc = "stopping"

\* C12: the step in which fullscreen is left while the intentional-exit flag
\* is false ends in Paused (showExitModal true) with speech stopped and
\* recording stopped.
C12_FullscreenExitPauses ==
  [][ (fullscreen /\ ~fullscreen' /\ ~intentionalExit /\ ~ended) =>
        /\ showExitModal'
        /\ SpeechStopped(tts')
        /\ RecordingStopped(stt') ]_vars

\* C13: the step in which the window loses focus or the document becomes
\* hidden during a session ends in Paused (showExitModal true) with speech
\* stopped and recording stopped.
C13_FocusLossPauses ==
  [][ (focused /\ ~focused' /\ effectRan /\ ~ended) =>
        /\ showExitModal'
        /\ SpeechStopped(tts')
        /\ RecordingStopped(stt') ]_vars

\* C14 as stated: the step that returns from Paused (closes the exit modal
\* without starting a finishEvaluation run) ends in the phase in which the
\* modal was opened, with fullscreen requested again and the transcript
\* untouched.
C14_ReturnRestoresPhase ==
  [][ (showExitModal /\ ~showExitModal' /\ Len(finishes') = Len(finishes)) =>
        /\ Phase' = pausedFrom
        /\ fullscreen \/ fsRequested'
        /\ messages' = messages ]_vars

\* C14 as amended: the step that returns from Paused closes the exit modal
\* and requests fullscreen again (unless the document is in fullscreen) and
\* changes nothing else: transcript, requests, speech, recording and
\* countdown are as they were, so the phase after the return is the phase
\* the flags gave just before it; the step that opens the modal leaves the
\* transcript unchanged.
C14_ReturnOnlyClosesModal ==
  [][ /\ (showExitModal /\ ~showExitModal' /\ Len(finishes') = Len(finishes)) =>
           /\ fullscreen \/ fsRequested'
           /\ Phase' = Phase
           /\ messages' = messages /\ chats' = chats /\ isLoading' = isLoading
           /\ tts' = tts /\ stt' = stt
           /\ timeLeft' = timeLeft /\ errorState' = errorState
      /\ (~showExitModal /\ showExitModal') => messages' = messages ]_vars

C14_Witness ==
  /\ ~showExitModal /\ fsRequested /\ ~fullscreen /\ ~ended
  /\ Len(finishes) = 0
  /\ Phase = "idle" /\ tts.paused
  /\ \E i \in DOMAIN tts.calls : tts.calls[i].pc = "playing"
  /\ Len(messages) = 1

\* C15: the step of an exit request (the exit modal opens while fullscreen
\* is unchanged) stops speech and recording and starts no finishEvaluation
\* run, sends no submission and calls no onEnd; a submission is sent only in
\* a step that closes the exit modal, and onEnd is called only in such a
\* step or when the submission of a run started by one settles.
C15_ExitRequestOnlyPauses ==
  [][ /\ (~showExitModal /\ showExitModal' /\ fullscreen' = fullscreen) =>
           /\ SpeechStopped(tts') /\ RecordingStopped(stt')
           /\ finishes' = finishes
           /\ stats'.submits = stats.submits /\ stats'.onEnds = stats.onEnds
           /\ ended' = ended
      /\ (stats'.submits # stats.submits) => (showExitModal /\ ~showExitModal')
      /\ (stats'.onEnds # stats.onEnds) =>
           \/ showExitModal /\ ~showExitModal'
           \/ \E f \in DOMAIN finishes : finishes[f].pc = "submit" ]_vars

\* The recorder held by mediaRecorderRef, if any, is not recording.
HeldRecorderStopped(s) ==
  s.recorderRef # 0 => s.recs[s.recorderRef].pc # "recording"

\* C16: the step in which the submission of a finishEvaluation run fails
\* sends no further submission, runs the cleanups (the intentional-exit flag
\* set, speech stopped, the recorder held by mediaRecorderRef not recording)
\* and calls onEnd once; a run that has finished never acts again.
C16_SubmitFailureStillEnds ==
  [][ \A f \in DOMAIN finishes :
        /\ (/\ finishes[f].pc = "submit" /\ finishes'[f].pc = "done"
            /\ ~finishes'[f].saved) =>
             /\ stats'.onEnds = stats.onEnds + 1
             /\ stats'.submits = stats.submits
             /\ ended' /\ intentionalExit'
             /\ SpeechStopped(tts')
             /\ HeldRecorderStopped(stt')
        /\ (finishes[f].pc = "done") => finishes'[f] = finishes[f] ]_vars

C16_Witness ==
  /\ ended /\ stats.submits = 1 /\ stats.onEnds = 1
  /\ Len(finishes) = 1 /\ finishes[1].pc = "done"
  /\ finishes[1].submitted /\ ~finishes[1].saved

\* C17: no promise returned by stopAndUploadVideo is rejected, and none is
\* resolved while an upload attempt is still outstanding.
C17_UploadPromiseResolves ==
  \A i \in DOMAIN video.calls :
    /\ video.calls[i].pc # "rejected"
    /\ (video.calls[i].pc = "resolved" /\ video.calls[i].early) =>
         ~video.calls[i].pending

\* C18: in an evaluation session speech is stopped for as long as the
\* transcript submission of a finishEvaluation run is in flight, and onEnd
\* is called only after a video upload (a stopAndUploadVideo call) has
\* settled.
C18_FinishingOrder ==
  Submits(cfg) =>
    /\ (\E f \in DOMAIN finishes : finishes[f].pc = "submit") => SpeechStopped(tts)
    /\ (stats.onEnds > 0) =>
         \E i \in DOMAIN video.calls : video.calls[i].pc \in {"resolved", "rejected"}

\* C19: timeLeft starts at durationMinutes * 60 and stays between 0 and that
\* value; it changes only by decreasing by exactly 1; the interval runs
\* while timeLeft is above 0 and can fire whether or not the exit modal is
\* shown; opening or closing the exit modal changes neither timeLeft nor
\* the interval; once the interval has stopped, timeLeft is 0.
C19_Countdown ==
  /\ timeLeft = <<cfg.durationMinutes * SecondsPerMinute>>
  /\ [](/\ timeLeft # <<>>
        /\ timeLeft[1] >= 0
        /\ timeLeft[1] <= cfg.durationMinutes * SecondsPerMinute
        /\ (timeLeft[1] > 0) => timerOn
        /\ (effectRan /\ timeLeft[1] > 0) => ENABLED Tick)
  /\ [][ /\ (timeLeft' # timeLeft) => timeLeft' = <<timeLeft[1] - 1>>
         /\ (showExitModal' # showExitModal) =>
              (timeLeft' = timeLeft /\ timerOn' = timerOn)
         /\ ~timerOn => (timeLeft' = <<0>> /\ ~timerOn') ]_vars

C19_Witness ==
  /\ showExitModal /\ timeLeft = <<0>> /\ ~timerOn
  /\ cfg.durationMinutes = MaxMinutes

\* C20: a step that calls stopRecording (a pause by fullscreen exit or exit
\* request, or the cleanup of finishEvaluation) while no recorder is
\* recording leaves isRecording false, releases the held stream and clears
\* its handle, starts no transcription and leaves the transcript unchanged.
C20_StopRecordingIdempotent ==
  [][ (/\ \/ fullscreen /\ ~fullscreen' /\ ~intentionalExit
          \/ ~showExitModal /\ showExitModal'
          \/ ~ended /\ ended'
       /\ \A k \in DOMAIN stt.recs : stt.recs[k].pc # "recording") =>
        /\ ~stt'.isRecording
        /\ stt'.streamRef = 0
        /\ (stt.streamRef # 0) => (stt.streamRef \notin stt'.live)
        /\ stt'.isTranscribing = stt.isTranscribing
        /\ stats'.sttPosts = stats.sttPosts
        /\ messages' = messages ]_vars

\* C21: once a recording has stopped (its onstop has run: the upload is in
\* flight, has settled or was skipped) every track of its stream is stopped,
\* and the step of its onstop leaves the stream handle cleared.
C21_StreamReleasedOnStop ==
  [][ \A k \in DOMAIN stt.recs :
        /\ (stt.recs[k].pc = "stopping" /\ stt'.recs[k].pc \in {"stt", "done"}) =>
             (k \notin stt'.live /\ stt'.streamRef = 0)
        /\ (stt.recs[k].pc \in {"stt", "done"} /\ k \notin stt.live) =>
             k \notin stt'.live ]_vars

\* C22: the three acquisition failures have three different messages, none
\* of them the fallback; the step in which a startRecording call fails
\* passes its message to onError (it becomes errorState), starts no
\* recorder, leaves isRecording false and the stream handle cleared with
\* no track of that call live, and issues no new getUserMedia request; a
\* call that has failed never acts again.
C22_AcquisitionFailure ==
  /\ Cardinality({specificError("NotAllowedError"), specificError("NotFoundError"),
                  specificError("NotReadableError"), specificError("other")}) = 4
  /\ [][ \A k \in DOMAIN stt.recs :
           /\ (stt.recs[k].pc = "gum" /\ stt'.recs[k].pc = "done") =>
                /\ errorState' \in GumErrors \cup {RecorderInitError}
                /\ ~stt'.isRecording /\ stt'.streamRef = 0 /\ k \notin stt'.live
                /\ stt'.recorderRef = stt.recorderRef
                /\ Len(stt'.recs) = Len(stt.recs)
                /\ \A j \in DOMAIN stt.recs : j # k => stt'.recs[j] = stt.recs[j]
           /\ (stt.recs[k].pc = "done") => stt'.recs[k] = stt.recs[k] ]_vars

C22_Witness ==
  /\ errorState = specificError("NotReadableError")
  /\ ~stt.isRecording /\ stt.streamRef = 0
  /\ \E k \in DOMAIN stt.recs : stt.recs[k].pc = "done"
  /\ \A j \in DOMAIN stt.recs : stt.recs[j].pc = "done" /\ stt.recs[j].heard = "none"
  /\ stt.live = {} /\ stt.recorderRef = 0

\* C23: the step in which an agent reply starting with an error-sentinel
\* prefix arrives appends it to the transcript, sends no TTS request and
\* leaves nothing playing; no TTS request is ever made for such a turn.
C23_SentinelNotSpoken ==
  /\ [](\A i \in DOMAIN tts.calls :
          tts.calls[i].n # 0 => appended[tts.calls[i].n].k # "sentinel")
  /\ [][ (/\ Len(appended') = Len(appended) + 1
          /\ appended'[Len(appended')].speaker = "alex"
          /\ appended'[Len(appended')].k = "sentinel") =>
            /\ messages' = Append(messages, appended'[Len(appended')])
            /\ Len(tts'.calls) = Len(tts.calls)
            /\ \A i \in DOMAIN tts.calls :
                 tts'.calls[i] = tts.calls[i] \/ tts'.calls[i] = DoneCall
            /\ ~tts'.isSpeaking /\ tts'.src = 0 /\ tts'.paused ]_vars

C23_Witness ==
  /\ Len(messages) = 3
  /\ messages[1].speaker = "alex" /\ messages[1].k = "plain"
  /\ messages[2].speaker = "user"
  /\ messages[3].speaker = "alex" /\ messages[3].k = "sentinel"
  /\ Len(tts.calls) = 1 /\ ~tts.isSpeaking /\ chats = {}

\* C24: a step that calls speak with a text that is empty or starts with an
\* error-sentinel prefix sends no TTS request and leaves the playback state
\* (the element's source and paused flag, its handlers, isSpeaking) as it was.
C24_UnspeakableIsNoOp ==
  [][ (/\ stats'.speakCalls = stats.speakCalls + 1
       /\ Len(appended') = Len(appended) + 1
       /\ NonSpeakable(appended'[Len(appended')])) =>
        /\ Len(tts'.calls) = Len(tts.calls)
        /\ tts'.src = tts.src /\ tts'.paused = tts.paused
        /\ tts'.owner = tts.owner /\ tts'.isSpeaking = tts.isSpeaking ]_vars

\* C25: every agent turn appended has a non-empty text, and the step that
\* appends the placeholder turn for a reply that is missing, empty or
\* whitespace-only sets no error and calls no speak.
C25_EmptyReplyPlaceholder ==
  [][ (/\ Len(appended') = Len(appended) + 1
       /\ appended'[Len(appended')].speaker = "alex") =>
        /\ appended'[Len(appended')].k \notin {"empty", "blank", "missing"}
        /\ (appended'[Len(appended')].k = "placeholder") =>
             /\ errorState' = errorState
             /\ tts' = tts
             /\ stats'.speakCalls = stats.speakCalls ]_vars

\* A step in which a speak call fails: its TTS request fails, or ttsError
\* takes a new value.
TtsFailureStep ==
  \/ \E i \in DOMAIN tts.calls :
       tts.calls[i].pc = "fetch" /\ tts'.calls[i] = DoneCall
  \/ tts'.ttsError # "none" /\ tts'.ttsError # tts.ttsError

\* C26: the step in which a speak call fails sets ttsError, shows it as
\* errorState and leaves isSpeaking false; the transcript, the requests in
\* flight, the recording and the loading flag are as they were and the
\* session has not ended by it, so that the phase is not "speaking".
C26_TtsFailureEndsSpeaking ==
  [][ TtsFailureStep =>
        /\ tts'.ttsError # "none"
        /\ errorState' = "tts"
        /\ ~tts'.isSpeaking
        /\ messages' = messages /\ appended' = appended
        /\ chats' = chats /\ stt' = stt /\ isLoading' = isLoading
        /\ ended' = ended
        /\ Phase' # "speaking" ]_vars

\* The four busy flags are false: the microphone control can be used.
MicActionable ==
  ~stt.isRecording /\ ~stt.isTranscribing /\ ~isLoading /\ ~tts.isSpeaking

C28_GreetingOpensTranscript ==
  [][ /\ (~effectRan /\ effectRan') =>
           \E c \in chats' : c.history = <<>> /\ chats' = chats \cup {c}
      /\ \A c \in chats :
           (/\ c.history = <<>> /\ c \notin chats'
            /\ Len(appended') = Len(appended) + 1
            /\ ~NonSpeakable(appended'[Len(appended')])
            /\ appended'[Len(appended')].k # "placeholder") =>
             /\ messages' = <<appended'[Len(appended')]>>
             /\ messages'[1].speaker = "alex"
             /\ stats'.speakCalls = stats.speakCalls + 1
             /\ tts'.calls[Len(tts'.calls)] = [pc |-> "fetch", n |-> messages'[1].n]
    ]_vars

\* C29: once the setup effect has run, the chat request with the empty
\* history has been sent, and it is sent once: the only request with an
\* empty history is the first chat request of the session, so that at most
\* one greeting is appended.
C29_InitOnce ==
  /\ effectRan => stats.chatSent >= 1
  /\ \A c \in chats : c.history = <<>> => c.id = 1

\* C30: while the audio element is not playing (after stop(), after a
\* preemption by speak(), after the playback has ended or failed) no
\* sampling loop has a frame scheduled and the amplitude is 0.
C30_SamplingEndsWithPlayback ==
  (tts.paused \/ tts.src = 0) => (analysis.loops = 0 /\ analysis.amplitude = 0)

\* C31: the intentional-exit flag is set only in the step that calls onEnd
\* (no await between the two); every fullscreenchange event clears it, and
\* nothing else does; an event that finds it set opens no exit modal and
\* stops neither speech nor recording; every fullscreen exit that finds it
\* not set (before it is set, as while the submission is awaited, or after
\* it was cleared) opens the exit modal.
C31_IntentionalExitFlag ==
  [][ /\ (~intentionalExit /\ intentionalExit') =>
           (ended' /\ stats'.onEnds = stats.onEnds + 1)
      /\ (fullscreen' # fullscreen) => ~intentionalExit'
      /\ (intentionalExit /\ ~intentionalExit') => fullscreen' # fullscreen
      /\ (fullscreen' # fullscreen /\ intentionalExit) =>
           (showExitModal' = showExitModal /\ tts' = tts /\ stt' = stt)
      /\ (fullscreen /\ ~fullscreen' /\ ~intentionalExit) => showExitModal' ]_vars

C31_Witness ==
  /\ ended /\ stats.onEnds = 1 /\ ~intentionalExit
  /\ ~fullscreen /\ ~showExitModal
  /\ Submits(cfg) /\ Len(finishes) = 1 /\ finishes[1].pc = "done"

\* C32: isLoading is true whenever a chat request is in flight.
C32_LoadingWhileChatPending == (chats # {}) => isLoading

\* The audio element is playing an utterance.
Playing(t) == t.src # 0 /\ ~t.paused

\* C33: isSpeaking is true whenever the audio element is playing an
\* utterance.
C33_SpeakingWhilePlaying == Playing(tts) => tts.isSpeaking

\* C34: the audio element plays no utterance while a recorder is recording.
C34_NoAudioWhileRecording ==
  (\E k \in DOMAIN stt.recs : stt.recs[k].pc = "recording") => ~Playing(tts)

\* C35: isRecording is true whenever the recorder held by mediaRecorderRef
\* is recording.
C35_RecordingFlagWhileRecording ==
  (stt.recorderRef # 0 /\ stt.recs[stt.recorderRef].pc = "recording") =>
    stt.isRecording

\* C36: at most one stream has live tracks and at most one recorder is
\* recording; the stream of a recording that has stopped, or whose
\* acquisition failed, has no live track.
C36_OneStreamOneRecorder ==
  /\ Cardinality(stt.live) <= 1
  /\ Cardinality({k \in DOMAIN stt.recs : stt.recs[k].pc = "recording"}) <= 1
  /\ \A k \in DOMAIN stt.recs : stt.recs[k].pc \in {"stt", "done"} => k \notin stt.live

\* C37: while the exit modal is shown no recorder is recording, and a step
\* that begins and ends with the modal shown sends no STT request and no
\* chat request, appends no turn, calls no speak, starts no recorder and
\* starts no playback.
C37_PausedMakesNoProgress ==
  /\ [](showExitModal => \A k \in DOMAIN stt.recs : stt.recs[k].pc # "recording")
  /\ [][ (showExitModal /\ showExitModal') =>
           /\ stats'.sttPosts = stats.sttPosts
           /\ stats'.chatSent = stats.chatSent
           /\ stats'.speakCalls = stats.speakCalls
           /\ appended' = appended
           /\ Playing(tts') => Playing(tts) ]_vars

\* C38: a submission is sent only by a finishEvaluation run of an
\* evaluation session with a key, one per run; a run of any other session
\* sends none, leaves the transcript as it is and in the same step sets the
\* intentional-exit flag, stops speech and the held recorder and calls onEnd.
C38_SubmitIffEvaluationKey ==
  [][ /\ (stats'.submits # stats.submits) =>
           /\ cfg.mode = "evaluation" /\ cfg.hasKey
           /\ stats'.submits = stats.submits + 1
           /\ Len(finishes') = Len(finishes) + 1
      /\ (Len(finishes') = Len(finishes) + 1) =>
           IF cfg.mode = "evaluation" /\ cfg.hasKey
           THEN /\ stats'.submits = stats.submits + 1
                /\ finishes'[Len(finishes')].pc = "submit"
           ELSE /\ stats'.submits = stats.submits
                /\ finishes'[Len(finishes')].pc = "done"
                /\ messages' = messages
                /\ intentionalExit'
                /\ SpeechStopped(tts') /\ HeldRecorderStopped(stt')
                /\ stats'.onEnds = stats.onEnds + 1 /\ ended' ]_vars

C38_Witness ==
  /\ cfg.mode = "position" /\ cfg.hasKey
  /\ ended /\ stats.submits = 0 /\ stats.onEnds = 1
  /\ Len(messages) = 1 /\ Len(finishes) = 1

\* C40: whenever no upload request of ResumeUploadDialog is in flight (none
\* was made, or every one has settled) its isLoading is false, so that the
\* submit button is enabled for a chosen file and handleOpenChange closes
\* the dialog.
C40_DialogLeavesLoading == ~dialog.uploading => ~dialog.isLoading

\* C39: the time_left_mins of a chat request is null exactly when timeLeft
\* is null at the moment the request is sent, and is timeLeft/60 for that
\* timeLeft otherwise, 0 included.
C39_TimeLeftMins ==
  [][ \A c \in chats' \ chats :
        c.mins = IF timeLeft = <<>> THEN <<>>
                 ELSE <<[num |-> timeLeft[1], den |-> SecondsPerMinute]>> ]_vars
====
